---- MODULE Spec2Model ----
(***************************************************************************)
(* Model of src/src/tilemap/tilemap.rs: the TileMap container (a fixed     *)
(* size, multi-layer grid of u32 tiles), its bounds-checked accessors and  *)
(* its bincode persistence.                                                *)
(*                                                                         *)
(* The state is one TileMap (the fields tiles, size, layer_count), the     *)
(* arguments its constructor was called with, and a record of the most     *)
(* recent call with its arguments and its outcome.                         *)
(*                                                                         *)
(* u32 arithmetic is the wrapping arithmetic of a build without overflow   *)
(* checks (modulo 2^32); with overflow checks on, the same products panic  *)
(* inside new instead of wrapping.  The model checker's integers are       *)
(* 32-bit signed, so the products and sums are computed byte by byte and   *)
(* never through an intermediate value above 2^31 - 1.                     *)
(*                                                                         *)
(* bincode is an external crate: serialize and deserialize follow its      *)
(* fixed-width little-endian encoding of the derived Serialize and         *)
(* Deserialize of TileMap (fields in declaration order, a Vec as a u64     *)
(* length followed by its elements).                                       *)
(***************************************************************************)
EXTENDS Integers, Sequences, FiniteSets, TLC

\* ------------------------------------------------------------------ bounds
MaxWidth == 2
MaxHeight == 2
MaxLayers == 2
MaxSetCalls == 1

\* A dimension whose square is exactly 2^32, i.e. wraps to 0 in u32.
BigDim == 2 ^ 16

\* ------------------------------------------------------- u32 arithmetic
\* The i-th little-endian byte of n.
Byte(n, i) == (n \div (256 ^ i)) % 256

\* The integer whose four little-endian bytes are b.
FromBytes(b) == b[1] + 256 * b[2] + 65536 * b[3] + 16777216 * b[4]

\* u32 multiplication, wrapping: the low four bytes of the schoolbook product.
WrapMul(a, b) ==
    LET c0 == Byte(a, 0) * Byte(b, 0)
        c1 == Byte(a, 0) * Byte(b, 1) + Byte(a, 1) * Byte(b, 0) + (c0 \div 256)
        c2 == Byte(a, 0) * Byte(b, 2) + Byte(a, 1) * Byte(b, 1)
              + Byte(a, 2) * Byte(b, 0) + (c1 \div 256)
        c3 == Byte(a, 0) * Byte(b, 3) + Byte(a, 1) * Byte(b, 2)
              + Byte(a, 2) * Byte(b, 1) + Byte(a, 3) * Byte(b, 0) + (c2 \div 256)
    IN  FromBytes(<<c0 % 256, c1 % 256, c2 % 256, c3 % 256>>)

\* u32 addition, wrapping: the low four bytes of the sum.
WrapAdd(a, b) ==
    LET s0 == Byte(a, 0) + Byte(b, 0)
        s1 == Byte(a, 1) + Byte(b, 1) + (s0 \div 256)
        s2 == Byte(a, 2) + Byte(b, 2) + (s1 \div 256)
        s3 == Byte(a, 3) + Byte(b, 3) + (s2 \div 256)
    IN  FromBytes(<<s0 % 256, s1 % 256, s2 % 256, s3 % 256>>)

\* ------------------------------------------------------------ input sets
Vector2u(x, y) == [x |-> x, y |-> y]

\* Sizes given to new: every small size, and one whose area overflows u32.
Sizes ==
    {Vector2u(w, h) : w \in 0..MaxWidth, h \in 0..MaxHeight}
        \cup {Vector2u(BigDim, BigDim)}

\* Coordinates given to get_tile and set_tile along a side of length n: the
\* small ones, and n itself (the first one out of bounds).
Coordinates(n, max) == (0..max) \cup {n}

Positions(sz) ==
    {Vector2u(x, y) : x \in Coordinates(sz.x, MaxWidth),
                      y \in Coordinates(sz.y, MaxHeight)}

LayerCounts == 0..MaxLayers
Layers == 0..MaxLayers

\* Tile identifiers: the code stores and returns them and never computes with
\* them.  Air fills the layers above the first; TestTile is the default tile
\* of test_tile_map_new.
Air == 0
TestTile == 2
Tiles == {Air, TestTile}

\* ------------------------------------------------------------------ state
VARIABLES tiles, size, layer_count, args, last, set_calls

vars == <<tiles, size, layer_count, args, last, set_calls>>

\* vec![value; n]
Filled(value, n) == [i \in 1..n |-> value]

\* TileMap::new
new(sz, count, default) ==
    LET area == WrapMul(sz.x, sz.y)
        first == <<Filled(default, area)>>
        \* for _ in 1..layer_count: no iteration when layer_count <= 1
        rounds == IF count > 1 THEN count - 1 ELSE 0
        others == [i \in 1..rounds |-> Filled(Air, area)]
    IN  [tiles |-> first \o others, size |-> sz, layer_count |-> count]

\* TileMap::compute_index: Option<usize>
compute_index(sz, position) ==
    IF position.x >= sz.x \/ position.y >= sz.y
    THEN [some |-> FALSE, index |-> 0]
    ELSE [some |-> TRUE,
          index |-> WrapAdd(position.x, WrapMul(position.y, sz.x))]

\* TileMap::get_tile: Option<u32>
get_tile(t, sz, position, layer) ==
    LET idx == compute_index(sz, position)
    IN  IF ~idx.some THEN [result |-> "None", value |-> 0]
        ELSE IF layer >= Len(t) THEN [result |-> "None", value |-> 0]
        ELSE IF idx.index >= Len(t[layer + 1]) THEN [result |-> "None", value |-> 0]
        ELSE [result |-> "Some", value |-> t[layer + 1][idx.index + 1]]

\* TileMap::set_tile with the layer looked up before the position is checked.
set_tile_layer_first(t, sz, position, layer, tile) ==
    LET idx == compute_index(sz, position)
    IN  IF layer >= Len(t) THEN [result |-> "InvalidLayer", tiles |-> t]
        ELSE IF ~idx.some THEN [result |-> "InvalidPosition", tiles |-> t]
        ELSE IF idx.index >= Len(t[layer + 1]) THEN [result |-> "Panic", tiles |-> t]
        ELSE [result |-> "Ok",
              tiles |-> [t EXCEPT ![layer + 1][idx.index + 1] = tile]]

\* TileMap::set_tile that appends a layer when the layer is one past the end.
set_tile_growing(t, sz, position, layer, tile) ==
    LET idx == compute_index(sz, position)
    IN  IF ~idx.some THEN [result |-> "InvalidPosition", tiles |-> t]
        ELSE IF layer > Len(t) THEN [result |-> "InvalidLayer", tiles |-> t]
        ELSE IF layer = Len(t)
             THEN [result |-> "Ok", tiles |-> Append(t, <<tile>>)]
        ELSE IF idx.index >= Len(t[layer + 1]) THEN [result |-> "Panic", tiles |-> t]
        ELSE [result |-> "Ok",
              tiles |-> [t EXCEPT ![layer + 1][idx.index + 1] = tile]]

\* TileMap::set_tile: Result<(), TileMapError>, and the tiles afterwards.
\* "Panic" is the index-out-of-bounds panic of v[index].
set_tile(t, sz, position, layer, tile) ==
    LET idx == compute_index(sz, position)
    IN  IF ~idx.some THEN [result |-> "InvalidPosition", tiles |-> t]
        ELSE IF layer >= Len(t) THEN [result |-> "InvalidLayer", tiles |-> t]
        ELSE IF idx.index >= Len(t[layer + 1]) THEN [result |-> "Panic", tiles |-> t]
        ELSE [result |-> "Ok",
              tiles |-> [t EXCEPT ![layer + 1][idx.index + 1] = tile]]

\* ------------------------------------------------------------ persistence
\* bincode's fixed-width little-endian integers.
U32LE(n) == <<Byte(n, 0), Byte(n, 1), Byte(n, 2), Byte(n, 3)>>

\* A usize length, written as a u64.
U64LE(n) == U32LE(n) \o <<0, 0, 0, 0>>

\* One layer (Vec<u32>): its length, then its tiles.
SerializeLayer(v) ==
    U64LE(Len(v)) \o
        [k \in 1..(4 * Len(v)) |-> Byte(v[((k - 1) \div 4) + 1], (k - 1) % 4)]

RECURSIVE SerializeLayers(_)
SerializeLayers(t) ==
    IF t = <<>> THEN <<>>
    ELSE SerializeLayer(Head(t)) \o SerializeLayers(Tail(t))

\* bincode::serialize with the size written as (y, x).
serialize_size_swapped(t, sz, count) ==
    U64LE(Len(t)) \o SerializeLayers(t)
        \o U32LE(sz.y) \o U32LE(sz.x) \o U32LE(count)

\* bincode::serialize(&self): the fields in declaration order.
serialize(t, sz, count) ==
    U64LE(Len(t)) \o SerializeLayers(t)
        \o U32LE(sz.x) \o U32LE(sz.y) \o U32LE(count)

NoMap == [tiles |-> <<>>, size |-> Vector2u(0, 0), layer_count |-> 0]

\* A read that fails (unexpected end of the source).
Eof == [ok |-> FALSE, val |-> 0, next |-> 0]

\* Read a u32 at offset p (1-based).
TakeU32(b, p) ==
    IF p + 3 > Len(b) THEN Eof
    ELSE [ok |-> TRUE, val |-> FromBytes(SubSeq(b, p, p + 3)), next |-> p + 4]

\* Read a u64 length at offset p.  A length above 2^31 - 1 is more elements
\* than any source here holds bytes: it is reported as Len(b) + 1, on which
\* the element loop runs out of bytes as it does on the true value.
TakeLen(b, p) ==
    IF p + 7 > Len(b) THEN Eof
    ELSE IF b[p + 3] >= 128 \/ \E k \in 4..7 : b[p + k] # 0
         THEN [ok |-> TRUE, val |-> Len(b) + 1, next |-> p + 8]
         ELSE [ok |-> TRUE, val |-> FromBytes(SubSeq(b, p, p + 3)), next |-> p + 8]

\* Read n u32 elements from offset p onto acc.
RECURSIVE TakeElems(_, _, _, _)
TakeElems(b, p, n, acc) ==
    IF n = 0 THEN [ok |-> TRUE, val |-> acc, next |-> p]
    ELSE LET e == TakeU32(b, p)
         IN  IF ~e.ok THEN [ok |-> FALSE, val |-> acc, next |-> 0]
             ELSE TakeElems(b, e.next, n - 1, Append(acc, e.val))

\* Read one Vec<u32>.
TakeLayer(b, p) ==
    LET n == TakeLen(b, p)
    IN  IF ~n.ok THEN [ok |-> FALSE, val |-> <<>>, next |-> 0]
        ELSE TakeElems(b, n.next, n.val, <<>>)

\* Read n layers from offset p onto acc.
RECURSIVE TakeLayers(_, _, _, _)
TakeLayers(b, p, n, acc) ==
    IF n = 0 THEN [ok |-> TRUE, val |-> acc, next |-> p]
    ELSE LET v == TakeLayer(b, p)
         IN  IF ~v.ok THEN [ok |-> FALSE, val |-> acc, next |-> 0]
             ELSE TakeLayers(b, v.next, n - 1, Append(acc, v.val))

ReadFailed == [result |-> "ReadError", map |-> NoMap]

\* bincode::deserialize_from(value).map_err(|_| ReadError): the derived
\* Deserialize reads the fields in declaration order and checks nothing else;
\* bytes after the last field are left unread.
deserialize(b) ==
    LET n == TakeLen(b, 1)
    IN  IF ~n.ok THEN ReadFailed
        ELSE LET t == TakeLayers(b, n.next, n.val, <<>>)
             IN  IF ~t.ok THEN ReadFailed
                 ELSE LET x == TakeU32(b, t.next)
                          y == TakeU32(b, x.next)
                          c == TakeU32(b, y.next)
                      IN  IF ~x.ok \/ ~y.ok \/ ~c.ok THEN ReadFailed
                          ELSE [result |-> "Ok",
                                map |-> [tiles |-> t.val,
                                         size |-> Vector2u(x.val, y.val),
                                         layer_count |-> c.val]]

\* What a file written with the bytes b may hold when it is read back: b
\* itself, b cut short at one of its 4-byte words, or b with the low byte of
\* one word changed.
FileContents(b) ==
    {b} \cup {SubSeq(b, 1, 4 * k) : k \in 0..((Len(b) \div 4) - 1)}
        \cup {[b EXCEPT ![4 * k + 1] = (b[4 * k + 1] + 1) % 256] :
                 k \in 0..((Len(b) \div 4) - 1)}

\* ---------------------------------------------------------------- actions
\* The record of a call: its name, its arguments (position, layer, tile, and
\* bytes for the source of a read), and its outcome (result, with value for
\* the u32 returned, vec for the Vector2u returned, bytes for what write put
\* into its writer, loaded for the TileMap a read returned).
Call(op) ==
    [op |-> op, position |-> Vector2u(0, 0), layer |-> 0, tile |-> 0,
     result |-> "Ok", value |-> 0, vec |-> Vector2u(0, 0), bytes |-> <<>>,
     loaded |-> NoMap]

\* A call is made when the caller has taken the outcome of the one before
\* (no call is outstanding).  A set_tile that panicked unwinds out of the
\* caller: its outcome is never taken.
Idle == last.op = "none"

Init ==
    \E sz \in Sizes, count \in LayerCounts, default \in Tiles :
        LET m == new(sz, count, default)
        IN  /\ tiles = m.tiles
            /\ size = m.size
            /\ layer_count = m.layer_count
            /\ args = [size |-> sz, layer_count |-> count, default |-> default]
            /\ last = Call("new")
            /\ set_calls = 0

GetTile ==
    /\ Idle
    /\ \E position \in Positions(size), layer \in Layers :
        LET r == get_tile(tiles, size, position, layer)
        IN  last' = [Call("get_tile") EXCEPT !.position = position,
                                             !.layer = layer,
                                             !.result = r.result,
                                             !.value = r.value]
    /\ UNCHANGED <<tiles, size, layer_count, args, set_calls>>

SetTile ==
    /\ Idle
    /\ set_calls < MaxSetCalls
    /\ \E position \in Positions(size), layer \in Layers, tile \in Tiles :
        LET r == set_tile(tiles, size, position, layer, tile)
        IN  /\ tiles' = r.tiles
            /\ last' = [Call("set_tile") EXCEPT !.position = position,
                                                !.layer = layer,
                                                !.tile = tile,
                                                !.result = r.result]
    /\ set_calls' = set_calls + 1
    /\ UNCHANGED <<size, layer_count, args>>

Size ==
    /\ Idle
    /\ last' = [Call("size") EXCEPT !.vec = size]
    /\ UNCHANGED <<tiles, size, layer_count, args, set_calls>>

LayerCount ==
    /\ Idle
    /\ last' = [Call("layer_count") EXCEPT !.value = layer_count]
    /\ UNCHANGED <<tiles, size, layer_count, args, set_calls>>

\* write: the writer either takes all the bytes or fails.
Write ==
    /\ Idle
    /\ \E writer_ok \in BOOLEAN :
        last' = IF writer_ok
                THEN [Call("write") EXCEPT
                         !.bytes = serialize(tiles, size, layer_count)]
                ELSE [Call("write") EXCEPT !.result = "WriteError"]
    /\ UNCHANGED <<tiles, size, layer_count, args, set_calls>>

\* TryFrom<File>: the file is the one the preceding write filled, as it is
\* found when it is opened again.
Read ==
    /\ last.op = "write"
    /\ last.result = "Ok"
    /\ \E source \in FileContents(last.bytes) :
        LET r == deserialize(source)
        IN  last' = [Call("read") EXCEPT !.bytes = source,
                                         !.result = r.result,
                                         !.loaded = r.map]
    /\ UNCHANGED <<tiles, size, layer_count, args, set_calls>>

\* The caller takes the outcome of the call and goes on.
Return ==
    /\ last.op # "none"
    /\ last.result # "Panic"
    /\ last' = Call("none")
    /\ UNCHANGED <<tiles, size, layer_count, args, set_calls>>

Next ==
    \/ GetTile
    \/ SetTile
    \/ Size
    \/ LayerCount
    \/ Write
    \/ Read
    \/ Return

Spec == Init /\ [][Next]_vars

\* ----------------------------------------------------------------- claims
\* n = w * h over the integers (stated by division, so that no product above
\* 2^31 - 1 is formed).
IsArea(n, w, h) ==
    IF w = 0 \/ h = 0 THEN n = 0 ELSE n % w = 0 /\ n \div w = h

\* The position lies in [0, width) x [0, height).
InBounds(position, sz) == position.x < sz.x /\ position.y < sz.y

\* The data-model invariants of a TileMap value: as many layers as
\* layer_count, each of width * height tiles.
Consistent(m) ==
    /\ Len(m.tiles) = m.layer_count
    /\ \A l \in 1..Len(m.tiles) : IsArea(Len(m.tiles[l]), m.size.x, m.size.y)

\* C1: the grid returned by new(size, layer_count, default) has exactly
\* layer_count layers, each of length width * height, layer 0 all default and
\* every other layer all 0.
C1_NewBuildsLayerCountLayers ==
    last.op = "new" =>
        /\ Len(tiles) = args.layer_count
        /\ \A l \in 1..Len(tiles) :
            /\ IsArea(Len(tiles[l]), args.size.x, args.size.y)
            /\ \A i \in 1..Len(tiles[l]) :
                tiles[l][i] = (IF l = 1 THEN args.default ELSE 0)

\* C2: in every state reached by new and set_tile calls the number of stored
\* layers equals layer_count and every layer has length width * height; a
\* grid built with layer_count = 0 stores no layer.
C2_StoredLayersMatchLayerCount ==
    /\ Consistent([tiles |-> tiles, size |-> size, layer_count |-> layer_count])
    /\ (layer_count = 0 => Len(tiles) = 0)

\* C3: get_tile returns absent whenever x >= width or y >= height or
\* layer >= layer_count, and otherwise the value stored at index x + y * width
\* of that layer (the initial fill when no set_tile was called yet).
C3_GetTileAbsentOrStored ==
    last.op = "get_tile" =>
        IF ~InBounds(last.position, size) \/ last.layer >= layer_count
        THEN last.result = "None"
        ELSE /\ last.result = "Some"
             /\ last.layer < Len(tiles)
             /\ last.position.x + last.position.y * size.x
                    < Len(tiles[last.layer + 1])
             /\ last.value =
                    tiles[last.layer + 1]
                         [last.position.x + last.position.y * size.x + 1]
             /\ (set_calls = 0 =>
                    last.value = (IF last.layer = 0 THEN args.default ELSE 0))

\* C4: set_tile on an in-bounds position and layer succeeds, a following
\* get_tile there returns the value set, and every other cell keeps its
\* previous value.
C4_SetTileInBoundsSetsOneCell ==
    [][(/\ last'.op = "set_tile"
        /\ InBounds(last'.position, size)
        /\ last'.layer < layer_count)
       =>
       (/\ last'.result = "Ok"
        /\ get_tile(tiles', size', last'.position, last'.layer)
               = [result |-> "Some", value |-> last'.tile]
        /\ Len(tiles') = Len(tiles)
        /\ \A l \in 1..Len(tiles) :
            /\ Len(tiles'[l]) = Len(tiles[l])
            /\ \A i \in 1..Len(tiles[l]) :
                (l # last'.layer + 1
                   \/ i # last'.position.x + last'.position.y * size.x + 1)
                    => tiles'[l][i] = tiles[l][i])]_vars

\* C5: set_tile with a position out of bounds returns InvalidPosition, with a
\* position in bounds and layer >= layer_count it returns InvalidLayer, and in
\* both cases the tiles, the size and layer_count are left as they were.
C5_SetTileErrorsLeaveGrid ==
    [][(/\ last'.op = "set_tile"
        /\ (~InBounds(last'.position, size) \/ last'.layer >= layer_count))
       =>
       (/\ last'.result =
              (IF ~InBounds(last'.position, size)
               THEN "InvalidPosition" ELSE "InvalidLayer")
        /\ UNCHANGED <<tiles, size, layer_count>>)]_vars

\* C6: round trip: reading back the bytes that write produced for the grid
\* succeeds and yields a grid equal to it in size, layer_count and tiles.
C6_ReadOfWriteIsTheGrid ==
    (last.op = "read" /\ last.bytes = serialize(tiles, size, layer_count)) =>
        /\ last.result = "Ok"
        /\ last.loaded =
               [tiles |-> tiles, size |-> size, layer_count |-> layer_count]

\* A grid with a tile that only set_tile can have put there (layer 1 is
\* created all 0) was written and read back whole.
C6_Witness ==
    /\ last.op = "read"
    /\ last.bytes = serialize(tiles, size, layer_count)
    /\ last.result = "Ok"
    /\ size = Vector2u(2, 1)
    /\ Len(tiles) = 2
    /\ tiles[2] = <<0, 2>>
    /\ last.loaded.tiles = tiles

\* C7: whenever a read succeeds, the grid it returns has layer_count layers of
\* width * height tiles each; encodings whose fields disagree are rejected.
C7_ReadReturnsConsistentGrid ==
    (last.op = "read" /\ last.result = "Ok") => Consistent(last.loaded)

\* C8: size() and layer_count() return the values given to new after any
\* calls; no call resizes the grid, adds or removes layers, or changes
\* layer_count.
C8_SizeAndLayerCountAreFixed ==
    /\ size = args.size
    /\ layer_count = args.layer_count
    /\ Len(tiles) = Len(new(args.size, args.layer_count, args.default).tiles)
    /\ \A l \in 1..Len(tiles) :
        Len(tiles[l])
            = Len(new(args.size, args.layer_count, args.default).tiles[l])
    /\ (last.op = "size" => last.vec = args.size)
    /\ (last.op = "layer_count" => last.value = args.layer_count)

\* layer_count() is called after a set_tile that changed a tile.
C8_Witness ==
    /\ last.op = "layer_count"
    /\ last.value = 2
    /\ args.layer_count = 2
    /\ set_calls > 0
    /\ tiles # new(args.size, args.layer_count, args.default).tiles

\* C9: set_tile checks the position before the layer: with the position out
\* of bounds the result is InvalidPosition whatever the layer, and
\* InvalidLayer is returned only for a position in bounds.
C9_PositionCheckedBeforeLayer ==
    last.op = "set_tile" =>
        /\ (~InBounds(last.position, size) => last.result = "InvalidPosition")
        /\ (last.result = "InvalidLayer" => InBounds(last.position, size))

\* set_tile was called with a position out of bounds and a layer that is
\* neither below layer_count nor stored.
C9_Witness ==
    /\ last.op = "set_tile"
    /\ ~InBounds(last.position, size)
    /\ last.layer >= layer_count
    /\ last.layer >= Len(tiles)
    /\ last.result = "InvalidPosition"

\* C10: with u32 arithmetic wrapping modulo 2^32, set_tile on any grid new
\* builds ends in Ok, InvalidPosition or InvalidLayer: the index computed for
\* an accepted position is below the stored layer length, so the write never
\* falls outside the layer and never aborts.
C10_SetTileNeverAborts ==
    last.op = "set_tile" =>
        /\ last.result \in {"Ok", "InvalidPosition", "InvalidLayer"}
        /\ \A l \in 1..Len(tiles) :
            compute_index(size, last.position).some =>
                compute_index(size, last.position).index < Len(tiles[l])

====
